---- MODULE Spec2Model ----
(***************************************************************************)
(* Model of streamlit_dga_app.py: the DGA diagnostic functions, the        *)
(* ternary geometry and plot construction, and the Streamlit session that  *)
(* reruns the script on every widget event.                                *)
(*                                                                         *)
(* Numbers.  The code computes in Python floats (IEEE 754 doubles), and    *)
(* at a threshold the rounding of a quotient decides the branch, so the    *)
(* model computes in doubles too: a double is the record                   *)
(* [m |-> M, e |-> E] standing for M * 2^E, M a 53-bit natural held as a   *)
(* little-endian sequence of 15-bit limbs (zero is [m |-> <<>>, e |-> 0]), *)
(* and +, * and / round to nearest, ties to even.  All values are          *)
(* non-negative and far from overflow and underflow.                       *)
(*                                                                         *)
(* A gas concentration typed into a number_input is a decimal with one     *)
(* digit after the point; the variable gas_data and the arguments recorded *)
(* for a call hold it as the integer count n of 1/Scale ppm, and Float(n)  *)
(* is the double the widget returns for it, the one nearest n/Scale.  The  *)
(* functions of the source take and return doubles, as in the code.        *)
(*                                                                         *)
(* The text rendering of numbers in the returned strings (":.1f", ":.2f")  *)
(* is not modelled: a return value is a record of the label and the        *)
(* numbers the string interpolates.                                        *)
(*                                                                         *)
(* The values of a function over the input domain are computed once and    *)
(* held in a table (the definitions named *_table); f_cached reads f's     *)
(* table and, outside the table, evaluates f itself.                       *)
(***************************************************************************)
EXTENDS Integers, Sequences, FiniteSets, TLC

VARIABLES gas_data, analyzed, lastEvent, page, call

vars == <<gas_data, analyzed, lastEvent, page, call>>

(***************************************************************************)
(* Units, bounds and inputs                                                *)
(***************************************************************************)
\* model units per ppm: the finest input step is 0.1 ppm
Scale == 10

\* every gas may also take each whole ppm value 0..MaxPpm
MaxPpm == 1

Ppm(n) == n * Scale

GasKeys == {"H2", "CH4", "C2H4", "C2H2", "CO"}

\* the value= defaults of the five number_input widgets
DefaultGas ==
    [H2 |-> Ppm(150), CH4 |-> Ppm(25), C2H4 |-> Ppm(10),
     C2H2 |-> Scale \div 2, CO |-> Ppm(800)]

\* concentrations at and around the thresholds the functions compare with,
\* and concentrations whose quotients round across a threshold:
\* CH4 = 2.5, C2H4 = 2.6, C2H2 = 0.1 has the C2H4 percentage
\* 50.000000000000014 (Triangle 1 and 5); H2 = 39.9, C2H2 = 17.1, C2H4 = 57
\* has the C2H2 percentage 15.000000000000002 (Triangle 4); CH4 = 0.3,
\* H2 = 3 has the ratio 0.09999999999999999 (Rogers); C2H2 = 17.1,
\* C2H4 = 57 has the ratio 0.30000000000000004 (Doernenburg)
Landmarks ==
    [H2   |-> {Ppm(3), 399, Ppm(50), Ppm(100), Ppm(150), Ppm(600)},
     CH4  |-> {3, 25, Ppm(10), Ppm(25), Ppm(200)},
     C2H4 |-> {26, Ppm(10), Ppm(30), Ppm(50), Ppm(57), Ppm(250)},
     C2H2 |-> {1, Scale \div 2, Ppm(5), 171, Ppm(30)},
     CO   |-> {Ppm(800), Ppm(1001)}]

\* the values a number_input (min_value=0.0) takes when a function is
\* called on a reading
GasValues(k) == Landmarks[k] \cup {Ppm(n) : n \in 0..MaxPpm}

Readings ==
    [H2 : GasValues("H2"), CH4 : GasValues("CH4"), C2H4 : GasValues("C2H4"),
     C2H2 : GasValues("C2H2"), CO : GasValues("CO")]

\* the values the user types in a session: the defaults, the whole ppm
\* values, and the Triangle 1 triple that rounds across a threshold
Typed ==
    [H2   |-> {Ppm(150)},
     CH4  |-> {25, Ppm(25)},
     C2H4 |-> {26, Ppm(10)},
     C2H2 |-> {1, Scale \div 2},
     CO   |-> {Ppm(800)}]

WidgetValues(k) == Typed[k] \cup {Ppm(n) : n \in 0..MaxPpm}

WidgetReadings ==
    [H2 : WidgetValues("H2"), CH4 : WidgetValues("CH4"),
     C2H4 : WidgetValues("C2H4"), C2H2 : WidgetValues("C2H2"),
     CO : WidgetValues("CO")]

(***************************************************************************)
(* Natural numbers of any size: little-endian sequences of limbs in base   *)
(* Base, without high zero limbs; <<>> is zero.                            *)
(***************************************************************************)
\* bits per limb
LimbBits == 15
Base == 2^LimbBits

RECURSIVE BFromInt(_)
BFromInt(n) == IF n = 0 THEN <<>> ELSE <<n % Base>> \o BFromInt(n \div Base)

RECURSIVE BNorm(_)
BNorm(a) ==
    IF a = <<>> THEN <<>>
    ELSE IF a[Len(a)] = 0 THEN BNorm(SubSeq(a, 1, Len(a) - 1))
    ELSE a

LimbAt(a, i) == IF i >= 1 /\ i <= Len(a) THEN a[i] ELSE 0

RECURSIVE BCmpFrom(_, _, _)
BCmpFrom(a, b, i) ==
    IF i = 0 THEN 0
    ELSE IF a[i] < b[i] THEN -1
    ELSE IF a[i] > b[i] THEN 1
    ELSE BCmpFrom(a, b, i - 1)

\* -1, 0 or 1 as a < b, a = b or a > b
BCmp(a, b) ==
    IF Len(a) < Len(b) THEN -1
    ELSE IF Len(a) > Len(b) THEN 1
    ELSE BCmpFrom(a, b, Len(a))

\* the limbs of a + b from limb i on; x is the sum at limb i, carry included
RECURSIVE BAddFrom(_, _, _, _)
BAddFrom(a, b, i, x) ==
    IF i > Len(a) /\ i > Len(b)
    THEN IF x = 0 THEN <<>> ELSE <<x>>
    ELSE <<x % Base>>
         \o BAddFrom(a, b, i + 1,
                     LimbAt(a, i + 1) + LimbAt(b, i + 1) + (x \div Base))

BAdd(a, b) == BAddFrom(a, b, 1, LimbAt(a, 1) + LimbAt(b, 1))

BDouble(a) == BAdd(a, a)

\* the limbs of a - b from limb i on; x is the difference at limb i, borrow
\* included
RECURSIVE BSubFrom(_, _, _, _)
BSubFrom(a, b, i, x) ==
    IF i > Len(a) THEN <<>>
    ELSE IF x < 0
    THEN <<x + Base>> \o BSubFrom(a, b, i + 1, LimbAt(a, i + 1) - LimbAt(b, i + 1) - 1)
    ELSE <<x>> \o BSubFrom(a, b, i + 1, LimbAt(a, i + 1) - LimbAt(b, i + 1))

\* a - b for a >= b
BSub(a, b) == BNorm(BSubFrom(a, b, 1, LimbAt(a, 1) - LimbAt(b, 1)))

\* the limbs of a * k from limb i on; x is the product at limb i, carry
\* included
RECURSIVE BMulSmallFrom(_, _, _, _)
BMulSmallFrom(a, k, i, x) ==
    IF i > Len(a)
    THEN IF x = 0 THEN <<>> ELSE <<x>>
    ELSE <<x % Base>>
         \o BMulSmallFrom(a, k, i + 1, LimbAt(a, i + 1) * k + (x \div Base))

\* a * k for 0 <= k < Base
BMulSmall(a, k) ==
    IF k = 0 THEN <<>> ELSE BMulSmallFrom(a, k, 1, LimbAt(a, 1) * k)

BShiftLimbs(a, n) ==
    IF a = <<>> THEN <<>> ELSE [i \in 1..n |-> 0] \o a

RECURSIVE BMul(_, _)
BMul(a, b) ==
    IF b = <<>> THEN <<>>
    ELSE BAdd(BMulSmall(a, Head(b)), BShiftLimbs(BMul(a, Tail(b)), 1))

\* a * 2^n
BShl(a, n) ==
    BShiftLimbs(BMulSmall(a, 2^(n % LimbBits)), n \div LimbBits)

\* a without its k low limbs
BDropLimbs(a, k) == IF k >= Len(a) THEN <<>> ELSE SubSeq(a, k + 1, Len(a))

\* floor(a / 2^r) for 0 <= r < LimbBits
BShrBits(a, r) ==
    BNorm([i \in 1..Len(a) |->
              (a[i] \div 2^r) + (LimbAt(a, i + 1) % 2^r) * 2^(LimbBits - r)])

\* floor(a / 2^n)
BShr(a, n) == BShrBits(BDropLimbs(a, n \div LimbBits), n % LimbBits)

RECURSIVE IntBitLen(_)
IntBitLen(n) == IF n = 0 THEN 0 ELSE 1 + IntBitLen(n \div 2)

\* the number of bits of a; 0 for zero
BBitLen(a) ==
    IF a = <<>> THEN 0
    ELSE LimbBits * (Len(a) - 1) + IntBitLen(a[Len(a)])

BOdd(a) == a # <<>> /\ a[1] % 2 = 1

\* the largest k in lo..hi with k * d <= rem, by bisection
RECURSIVE BDigit(_, _, _, _)
BDigit(rem, d, lo, hi) ==
    IF lo = hi THEN lo
    ELSE IF BCmp(BMulSmall(d, (lo + hi + 1) \div 2), rem) <= 0
    THEN BDigit(rem, d, (lo + hi + 1) \div 2, hi)
    ELSE BDigit(rem, d, lo, ((lo + hi + 1) \div 2) - 1)

\* one step of the long division: the quotient q so far gets the digit k,
\* the remainder loses k * d
BDivPut(q, rem, d, k) ==
    [q |-> BNorm(<<k>> \o q), r |-> BSub(rem, BMulSmall(d, k))]

BDivDigit(q, rem, d) == BDivPut(q, rem, d, BDigit(rem, d, 0, Base - 1))

\* h is the division of the higher limbs, limb the next limb down
BDivStep(h, limb, d) == BDivDigit(h.q, BNorm(<<limb>> \o h.r), d)

\* quotient and remainder of n by d, d > 0: long division, high limb first
RECURSIVE BDivMod(_, _)
BDivMod(n, d) ==
    IF n = <<>> THEN [q |-> <<>>, r |-> <<>>]
    ELSE BDivStep(BDivMod(Tail(n), d), Head(n), d)

(***************************************************************************)
(* IEEE 754 doubles, non-negative and normal: [m |-> M, e |-> E] is        *)
(* M * 2^E with M of exactly MantBits bits; zero has M = <<>> and E = 0.   *)
(* Every operation rounds to nearest, ties to even.                        *)
(***************************************************************************)
\* bits of the significand of a double
MantBits == 53

FZero == [m |-> <<>>, e |-> 0]

\* q * 2^e for q of MantBits bits or 2^MantBits
FNormal(q, e) ==
    IF BBitLen(q) > MantBits
    THEN [m |-> BShr(q, 1), e |-> e + 1]
    ELSE [m |-> q, e |-> e]

\* q * 2^e with q of MantBits bits, moved up by one unit when up holds
FRoundUp(q, e, up) == FNormal(IF up THEN BAdd(q, <<1>>) ELSE q, e)

\* c is the sign of (discarded part) - (half a unit): up when above, to the
\* even neighbour at a tie
FRoundTie(q, e, c) == FRoundUp(q, e, c > 0 \/ (c = 0 /\ BOdd(q)))

\* n rounded to q = floor(n / 2^d), d > 0, in units of 2^e
FRoundIntTo(n, e, d, q) ==
    FRoundTie(q, e, BCmp(BDouble(BSub(n, BShl(q, d))), BShl(<<1>>, d)))

\* d is the number of bits n has too many
FRoundIntBy(n, k, d) ==
    IF d <= 0 THEN [m |-> BShl(n, -d), e |-> k + d]
    ELSE FRoundIntTo(n, k + d, d, BShr(n, d))

\* the double nearest to n * 2^k
FRoundInt(n, k) ==
    IF n = <<>> THEN FZero ELSE FRoundIntBy(n, k, BBitLen(n) - MantBits)

\* the quotient qr.q in units of 2^e, rounded by the remainder qr.r
FRoundRatioRem(qr, den, e) ==
    FRoundTie(qr.q, e, BCmp(BDouble(qr.r), den))

FRoundRatioDiv(num, den, e) == FRoundRatioRem(BDivMod(num, den), den, e)

\* s is the shift that gives the quotient exactly MantBits bits
FRoundRatioBy(n, d, k, s) ==
    FRoundRatioDiv(IF s >= 0 THEN BShl(n, s) ELSE n,
                   IF s >= 0 THEN d ELSE BShl(d, -s), k - s)

\* s0 or s0 - 1: the shift s with 2^(MantBits-1) <= n * 2^s / d < 2^MantBits
FQuotShift(n, d, s0) ==
    IF (IF s0 >= 0 THEN BCmp(BShl(n, s0), BShl(d, MantBits)) >= 0
        ELSE BCmp(n, BShl(d, MantBits - s0)) >= 0)
    THEN s0 - 1 ELSE s0

\* the double nearest to (n / d) * 2^k, d > 0
FRoundRatio(n, d, k) ==
    IF n = <<>> THEN FZero
    ELSE FRoundRatioBy(n, d, k,
             FQuotShift(n, d, MantBits + BBitLen(d) - BBitLen(n)))

\* the double nearest to the fraction n / d of two small naturals
FFromRatio(n, d) == FRoundRatio(BFromInt(n), BFromInt(d), 0)

\* the double of a Python int
FFromInt(n) == FRoundInt(BFromInt(n), 0)

FIsZero(a) == a.m = <<>>

FLt(a, b) ==
    IF FIsZero(b) THEN FALSE
    ELSE IF FIsZero(a) THEN TRUE
    ELSE IF a.e # b.e THEN a.e < b.e
    ELSE BCmp(a.m, b.m) < 0

FGt(a, b) == FLt(b, a)
FLe(a, b) == ~FLt(b, a)
FGe(a, b) == ~FLt(a, b)

\* a + b for a, b # 0 in units of 2^e, e the lower exponent
FAddAt(a, b, e) ==
    FRoundInt(BAdd(BShl(a.m, a.e - e), BShl(b.m, b.e - e)), e)

FAdd(a, b) ==
    IF FIsZero(a) THEN b
    ELSE IF FIsZero(b) THEN a
    ELSE FAddAt(a, b, IF a.e < b.e THEN a.e ELSE b.e)

FMul(a, b) ==
    IF FIsZero(a) \/ FIsZero(b) THEN FZero
    ELSE FRoundInt(BMul(a.m, b.m), a.e + b.e)

\* a / 2
FHalf(a) == IF FIsZero(a) THEN FZero ELSE [m |-> a.m, e |-> a.e - 1]

\* a / b for b # 0
FQuot(a, b) ==
    IF FIsZero(a) THEN FZero ELSE FRoundRatio(a.m, b.m, a.e - b.e)

(***************************************************************************)
(* Python numbers                                                          *)
(***************************************************************************)
\* the elements of S listed one by one, for the domain of a table
Listed(S) == {x : x \in S}

\* the entry of a table at x, and value where the table has no entry
Cached(table, x, value) == IF x \in DOMAIN table THEN table[x] ELSE value

\* a Python int in float arithmetic or in a comparison with a float: an
\* int below 2^MantBits is a double as it stands
PyInt(n) ==
    IF n = 0 THEN FZero
    ELSE [m |-> BShl(BFromInt(n), MantBits - IntBitLen(n)),
          e |-> IntBitLen(n) - MantBits]

\* the float literals of the source:
\* 0.1 = 7205759403792794 * 2^-56, 0.3 = 5404319552844595 * 2^-54,
\* 0.5 = 2^52 * 2^-53, 0.7 = 6305039478318694 * 2^-53
Lit_0_1 == [m |-> <<6554, 13107, 26214, 204>>, e |-> -56]
Lit_0_3 == [m |-> <<13107, 26214, 19660, 153>>, e |-> -54]
Lit_0_5 == [m |-> <<0, 0, 0, 128>>, e |-> -53]
Lit_0_7 == [m |-> <<26214, 19660, 6553, 179>>, e |-> -53]

\* np.sqrt(3) = 1.7320508075688772 = 7800463371553962 * 2^-52
np_sqrt_3 == [m |-> <<19626, 20656, 23019, 221>>, e |-> -52]

Float_table ==
    [n \in Listed(UNION {GasValues(k) : k \in GasKeys}) |-> FFromRatio(n, Scale)]

\* the float a number_input returns for the decimal n/Scale
Float(n) == Cached(Float_table, n, FFromRatio(n, Scale))

\* Python's a / b on floats: raises ZeroDivisionError when b is zero.  The
\* raise is a marker that no double equals.
ZeroDivisionError == [exc |-> "ZeroDivisionError"]
PyDiv(a, b) == IF FIsZero(b) THEN ZeroDivisionError ELSE FQuot(a, b)
Raises(rs) == \E i \in DOMAIN rs : rs[i] = ZeroDivisionError

\* what a call returns when an exception escapes it
Raise == [raised |-> TRUE, exc |-> "ZeroDivisionError"]

\* the pairs of gases (numerator, denominator) the script divides
GasPairs ==
    (GasValues("CH4") \X GasValues("H2"))
    \cup (GasValues("C2H4") \X GasValues("CH4"))
    \cup (GasValues("C2H2") \X GasValues("C2H4"))
    \cup (GasValues("C2H2") \X GasValues("CH4"))
    \cup (GasValues("C2H2") \X GasValues("H2"))

PyDiv_table ==
    [p \in Listed({<<Float(q[1]), Float(q[2])>> : q \in GasPairs}) |->
        PyDiv(p[1], p[2])]

PyDiv_cached(a, b) == Cached(PyDiv_table, <<a, b>>, PyDiv(a, b))

(***************************************************************************)
(* Ternary geometry                                                        *)
(***************************************************************************)
Point(x, y) == [x |-> x, y |-> y]

\* to_cartesian on floats: x = p2 + p3/2, y = p3*np.sqrt(3)/2; the
\* division by 2 is exact
to_cartesian(p1, p2, p3) ==
    Point(FAdd(p2, FHalf(p3)), FHalf(FMul(p3, np_sqrt_3)))

\* lines 19-22: the percentages of the quotients q = <<G1/total, G2/total,
\* G3/total>>
percentages_return(q, total) ==
    IF Raises(q) THEN Raise
    ELSE [raised |-> FALSE,
          P1 |-> FMul(q[1], PyInt(100)),
          P2 |-> FMul(q[2], PyInt(100)),
          P3 |-> FMul(q[3], PyInt(100)),
          total |-> total]

\* lines 19-22 for a total
percentages_quotients(G1, G2, G3, total) ==
    percentages_return(<<PyDiv(G1, total), PyDiv(G2, total),
                         PyDiv(G3, total)>>, total)

\* lines 17-22: get_duval_percentages from its total on; the zeros of the
\* total == 0 return are the float zero (the code returns the int 0, which
\* compares and prints alike)
percentages_of_total(G1, G2, G3, total) ==
    IF FIsZero(total)
    THEN [raised |-> FALSE, P1 |-> FZero, P2 |-> FZero,
          P3 |-> FZero, total |-> FZero]
    ELSE percentages_quotients(G1, G2, G3, total)

\* get_duval_percentages without the total == 0 return
get_duval_percentages_unguarded(G1, G2, G3) ==
    percentages_quotients(G1, G2, G3, FAdd(FAdd(G1, G2), G3))

\* get_duval_percentages with the third gas left out of the total
get_duval_percentages_short_total(G1, G2, G3) ==
    percentages_of_total(G1, G2, G3, FAdd(G1, G2))

\* get_duval_percentages: total = G1 + G2 + G3 added left to right,
\* Pi = (Gi / total) * 100
get_duval_percentages(G1, G2, G3) ==
    percentages_of_total(G1, G2, G3, FAdd(FAdd(G1, G2), G3))

\* the triples the script normalises: (CH4, C2H4, C2H2) and (H2, C2H2, C2H4)
T1Triples == GasValues("CH4") \X GasValues("C2H4") \X GasValues("C2H2")
T4Triples == GasValues("H2") \X GasValues("C2H2") \X GasValues("C2H4")

\* a triple of decimals as floats
FloatTriple(t) == <<Float(t[1]), Float(t[2]), Float(t[3])>>

get_duval_percentages_table ==
    [t \in Listed({FloatTriple(u) : u \in T1Triples \cup T4Triples}) |->
        get_duval_percentages(t[1], t[2], t[3])]

get_duval_percentages_cached(G1, G2, G3) ==
    Cached(get_duval_percentages_table, <<G1, G2, G3>>,
           get_duval_percentages(G1, G2, G3))

(***************************************************************************)
(* Diagnostic functions.  Each takes the floats (H2, CH4, C2H4, C2H2, CO)  *)
(* and returns [raised |-> FALSE, diagnosis |-> label, ...] or Raise.      *)
(* Labels are the source's, with "-" for the en dash.                      *)
(***************************************************************************)
NotApplicable == "Not Applicable (Total gas is zero)"

NoDetail == <<>>

\* the chain with the T2 acetylene limit at 2 instead of 1
classify_duval_t1_wide_T2(P_CH4, P_C2H4, P_C2H2) ==
    IF FLt(P_C2H2, Lit_0_5) /\ FGt(P_CH4, PyInt(80))
    THEN "T1 (Thermal fault T < 300°C)"
    ELSE IF FGt(P_C2H4, PyInt(25)) /\ FLt(P_C2H2, PyInt(2))
    THEN "T2 (Thermal fault 300°C-700°C)"
    ELSE IF FGt(P_C2H2, PyInt(5)) /\ FGt(P_C2H4, PyInt(15))
    THEN "D2 (Arcing in oil)"
    ELSE IF FGt(P_C2H4, PyInt(50)) /\ FLt(P_C2H2, PyInt(2))
    THEN "T3 (Thermal fault T > 700°C)"
    ELSE "Undefined/Mixed Fault"

\* the chain with the T3 branch tried before the T2 branch
classify_duval_t1_T3_first(P_CH4, P_C2H4, P_C2H2) ==
    IF FLt(P_C2H2, Lit_0_5) /\ FGt(P_CH4, PyInt(80))
    THEN "T1 (Thermal fault T < 300°C)"
    ELSE IF FGt(P_C2H4, PyInt(50)) /\ FLt(P_C2H2, PyInt(2))
    THEN "T3 (Thermal fault T > 700°C)"
    ELSE IF FGt(P_C2H4, PyInt(25)) /\ FLt(P_C2H2, PyInt(1))
    THEN "T2 (Thermal fault 300°C-700°C)"
    ELSE IF FGt(P_C2H2, PyInt(5)) /\ FGt(P_C2H4, PyInt(15))
    THEN "D2 (Arcing in oil)"
    ELSE "Undefined/Mixed Fault"

\* the if/elif chain of diagnose_duval_t1
classify_duval_t1(P_CH4, P_C2H4, P_C2H2) ==
    IF FLt(P_C2H2, Lit_0_5) /\ FGt(P_CH4, PyInt(80))
    THEN "T1 (Thermal fault T < 300°C)"
    ELSE IF FGt(P_C2H4, PyInt(25)) /\ FLt(P_C2H2, PyInt(1))
    THEN "T2 (Thermal fault 300°C-700°C)"
    ELSE IF FGt(P_C2H2, PyInt(5)) /\ FGt(P_C2H4, PyInt(15))
    THEN "D2 (Arcing in oil)"
    ELSE IF FGt(P_C2H4, PyInt(50)) /\ FLt(P_C2H2, PyInt(2))
    THEN "T3 (Thermal fault T > 700°C)"
    ELSE "Undefined/Mixed Fault"

\* lines 30-45: diagnose_duval_t1 from p = (P_CH4, P_C2H4, P_C2H2, total) on
diagnose_duval_t1_of(p) ==
    IF p.raised THEN Raise
    ELSE IF FIsZero(p.total)
    THEN [raised |-> FALSE, diagnosis |-> NotApplicable, detail |-> NoDetail]
    ELSE [raised |-> FALSE,
          diagnosis |-> classify_duval_t1(p.P1, p.P2, p.P3),
          detail |-> <<p.P1, p.P2, p.P3>>]

diagnose_duval_t1(H2, CH4, C2H4, C2H2, CO) ==
    diagnose_duval_t1_of(get_duval_percentages_cached(CH4, C2H4, C2H2))

\* the if/elif chain of diagnose_duval_t4
classify_duval_t4(P_H2, P_C2H2, P_C2H4) ==
    IF FGt(P_H2, PyInt(80)) /\ FLt(P_C2H2, PyInt(5))
    THEN "S (Stray Gassing / Hot metal contacts)"
    ELSE IF FGt(P_C2H4, PyInt(60)) /\ FLt(P_H2, PyInt(10))
    THEN "T3 (Severe Thermal Fault T > 700°C)"
    ELSE IF FGt(P_C2H2, PyInt(15))
    THEN "D2 (High Energy Arcing)"
    ELSE "Mixed or Undefined Region"

\* lines 51-63: diagnose_duval_t4 from p = (P_H2, P_C2H2, P_C2H4, total) on
diagnose_duval_t4_of(p) ==
    IF p.raised THEN Raise
    ELSE IF FIsZero(p.total)
    THEN [raised |-> FALSE, diagnosis |-> NotApplicable, detail |-> NoDetail]
    ELSE [raised |-> FALSE,
          diagnosis |-> classify_duval_t4(p.P1, p.P2, p.P3),
          detail |-> <<p.P1, p.P2, p.P3>>]

diagnose_duval_t4(H2, CH4, C2H4, C2H2, CO) ==
    diagnose_duval_t4_of(get_duval_percentages_cached(H2, C2H2, C2H4))

\* the digit with the lower cutoff itself counted as below
RogersDigit_inclusive(r, lo, hi) ==
    IF FLe(r, lo) THEN "0" ELSE IF FGt(r, hi) THEN "2" ELSE "1"

\* one digit of the Rogers code: '0' below lo, '2' above hi, else '1'
RogersDigit(r, lo, hi) ==
    IF FLt(r, lo) THEN "0" ELSE IF FGt(r, hi) THEN "2" ELSE "1"

\* the dict diagnoses of diagnose_rogers_ratio
diagnoses ==
    ("100" :> "T1 (Thermal Fault T < 300°C)") @@
    ("110" :> "T2 (Thermal Fault 300°C-700°C)") @@
    ("210" :> "T3 (Thermal Fault T > 700°C)") @@
    ("102" :> "D1 (Low Energy Discharge/PD)") @@
    ("001" :> "D2 (High Energy Discharge/Arcing)") @@
    ("000" :> "No fault / Normal aging") @@
    ("010" :> "Undefined/Mixed thermal") @@
    ("011" :> "Undefined/Mixed thermal") @@
    ("111" :> "Mixed thermal and electrical")

\* dict.get(key, default)
DictGet(d, key, default) == IF key \in DOMAIN d THEN d[key] ELSE default

\* a sentinel at the low end
RogersSentinel_zero == PyInt(0)

\* the value a ratio takes when its denominator is zero: the int 99
RogersSentinel == PyInt(99)

\* the dict ratios with R5 divided unconditionally
rogers_ratios_unguarded(H2, CH4, C2H4, C2H2) ==
    [R1 |-> IF FGt(H2, PyInt(0)) THEN PyDiv_cached(CH4, H2) ELSE RogersSentinel,
     R2 |-> IF FGt(CH4, PyInt(0)) THEN PyDiv_cached(C2H4, CH4) ELSE RogersSentinel,
     R5 |-> PyDiv_cached(C2H2, C2H4)]

\* the dict ratios of diagnose_rogers_ratio
rogers_ratios(H2, CH4, C2H4, C2H2) ==
    [R1 |-> IF FGt(H2, PyInt(0)) THEN PyDiv_cached(CH4, H2) ELSE RogersSentinel,
     R2 |-> IF FGt(CH4, PyInt(0)) THEN PyDiv_cached(C2H4, CH4) ELSE RogersSentinel,
     R5 |-> IF FGt(C2H4, PyInt(0)) THEN PyDiv_cached(C2H2, C2H4) ELSE RogersSentinel]

\* lines 74-77: the code string
rogers_code(ratios) ==
    RogersDigit(ratios.R1, Lit_0_1, PyInt(1))
    \o RogersDigit(ratios.R2, PyInt(1), PyInt(3))
    \o RogersDigit(ratios.R5, Lit_0_5, PyInt(3))

\* lines 92-94: the lookup and the return
rogers_return(ratios, code) ==
    [raised |-> FALSE, code |-> code,
     diagnosis |-> DictGet(diagnoses, code, "Undefined/Developing Fault"),
     ratios |-> ratios]

\* lines 74-94: diagnose_rogers_ratio from its dict ratios on
diagnose_rogers_ratio_of(ratios) ==
    IF Raises(ratios) THEN Raise
    ELSE rogers_return(ratios, rogers_code(ratios))

diagnose_rogers_ratio(H2, CH4, C2H4, C2H2, CO) ==
    diagnose_rogers_ratio_of(rogers_ratios(H2, CH4, C2H4, C2H2))

Inconclusive == "Inconclusive (Gas limits below Doernenburg thresholds)"

\* the applicability condition with the H2 limit at 50
doernenburg_not_applicable_low_H2(H2, CH4, C2H4, C2H2) ==
    \/ FLt(H2, PyInt(50))
    \/ FLt(CH4, PyInt(10))
    \/ FLt(C2H2, Lit_0_5)
    \/ FLt(C2H4, PyInt(50))

\* the applicability condition of diagnose_doernenburg
doernenburg_not_applicable(H2, CH4, C2H4, C2H2) ==
    \/ FLt(H2, PyInt(100))
    \/ FLt(CH4, PyInt(10))
    \/ FLt(C2H2, Lit_0_5)
    \/ FLt(C2H4, PyInt(50))

\* the dict ratios of diagnose_doernenburg
doernenburg_ratios(H2, CH4, C2H4, C2H2) ==
    [R_ch4_h2 |-> PyDiv_cached(CH4, H2),
     R_c2h2_c2h4 |-> PyDiv_cached(C2H2, C2H4),
     R_c2h2_ch4 |-> PyDiv_cached(C2H2, CH4),
     R_c2h2_h2 |-> PyDiv_cached(C2H2, H2)]

\* the if/elif chain of diagnose_doernenburg
classify_doernenburg(ratios) ==
    IF FGt(ratios.R_c2h2_c2h4, Lit_0_3) /\ FLt(ratios.R_c2h2_ch4, Lit_0_7)
    THEN "D1 (Discharge/Arcing)"
    ELSE IF FLt(ratios.R_c2h2_c2h4, Lit_0_3) /\ FGt(ratios.R_ch4_h2, PyInt(1))
    THEN "T2 (Thermal fault 300°C-700°C)"
    ELSE "Mixed/Other fault"

\* lines 102-117: diagnose_doernenburg from its dict ratios on
diagnose_doernenburg_of(ratios) ==
    IF Raises(ratios) THEN Raise
    ELSE [raised |-> FALSE, diagnosis |-> classify_doernenburg(ratios),
          ratios |-> ratios]

\* the result carries the local dict ratios as it stands at the return:
\* empty when the function returns before building it
diagnose_doernenburg(H2, CH4, C2H4, C2H2, CO) ==
    IF doernenburg_not_applicable(H2, CH4, C2H4, C2H2)
    THEN [raised |-> FALSE, diagnosis |-> Inconclusive, ratios |-> <<>>]
    ELSE diagnose_doernenburg_of(doernenburg_ratios(H2, CH4, C2H4, C2H2))

\* the if/elif chain of diagnose_duval_t5
classify_duval_t5(P_CH4, P_C2H4, P_C2H2) ==
    IF FGt(P_C2H4, PyInt(50)) /\ FGt(P_CH4, PyInt(40))
    THEN "HC (Hot cellulosic materials)"
    ELSE IF FGt(P_CH4, PyInt(70)) /\ FLt(P_C2H4, PyInt(10))
    THEN "T1 (Thermal T < 300°C - Cellulose/Paper)"
    ELSE IF FGt(P_C2H4, PyInt(30)) /\ FLt(P_C2H2, PyInt(1))
    THEN "T2 (Thermal T 300°C-770°C)"
    ELSE "Mixed Oil Fault"

\* lines 124-137: diagnose_duval_t5 from p = (P_CH4, P_C2H4, P_C2H2, total) on
diagnose_duval_t5_of(p) ==
    IF p.raised THEN Raise
    ELSE IF FIsZero(p.total)
    THEN [raised |-> FALSE, diagnosis |-> NotApplicable, detail |-> NoDetail]
    ELSE [raised |-> FALSE,
          diagnosis |-> classify_duval_t5(p.P1, p.P2, p.P3),
          detail |-> <<p.P1, p.P2, p.P3>>]

diagnose_duval_t5(H2, CH4, C2H4, C2H2, CO) ==
    diagnose_duval_t5_of(get_duval_percentages_cached(CH4, C2H4, C2H2))

diagnose_duval_pentagon(H2, CH4, C2H4, C2H2, CO) ==
    [raised |-> FALSE,
     diagnosis |->
        IF FGt(C2H2, PyInt(10)) /\ FGt(C2H4, PyInt(50))
        THEN "D2 / T3 (High Energy Arcing + Hotspot)"
        ELSE IF FGt(H2, PyInt(500)) /\ FLt(C2H4, PyInt(50))
        THEN "PD / D1 (Partial Discharge / Low Energy Discharge)"
        ELSE IF FGt(CO, PyInt(1000)) /\ FLt(C2H4, PyInt(10))
        THEN "C (Cellulose/Paper degradation - thermal)"
        ELSE IF FGt(C2H4, PyInt(200)) /\ FLt(H2, PyInt(50))
        THEN "T2 (Thermal Fault 300°C-700°C)"
        ELSE "Mixed/Unclassified Fault Zone"]

(***************************************************************************)
(* Plotting.  A plot is the record of what is drawn: the outline corners,  *)
(* each region's closed polygon and label anchor, and the user's point.    *)
(***************************************************************************)
RECURSIVE FSum(_, _)
FSum(seq, acc) ==
    IF seq = <<>> THEN acc ELSE FSum(Tail(seq), FAdd(acc, Head(seq)))

\* np.mean over a list of floats: the sum divided by the count (on the
\* vertices of the source every order of addition gives the same sum)
Mean(seq) == FQuot(FSum(seq, FZero), PyInt(Len(seq)))

\* one region of draw_duval_triangle_plot: project every vertex, close the
\* polygon with its first vertex, anchor the label at the vertex mean
\* lines 176-186: the polygon and the label of the projected vertices pts
DrawPolygon(region, pts) ==
    [polygon |-> Append(pts, pts[1]),
     color |-> region.color,
     center |-> Point(Mean([i \in 1..Len(pts) |-> pts[i].x]),
                      Mean([i \in 1..Len(pts) |-> pts[i].y])),
     text_color |-> region.text_color]

DrawRegion(region) ==
    DrawPolygon(region,
        [i \in 1..Len(region.coords) |->
            to_cartesian(PyInt(region.coords[i][1]),
                         PyInt(region.coords[i][2]),
                         PyInt(region.coords[i][3]))])

\* the dict regions of plot_duval_t1 (P1=CH4, P2=C2H4, P3=C2H2)
regions_t1 ==
    [PD |-> [color |-> "lightblue", text_color |-> "blue",
             coords |-> <<<<98, 2, 0>>, <<90, 0, 10>>, <<95, 0, 5>>, <<100, 0, 0>>>>],
     T1 |-> [color |-> "lightgreen", text_color |-> "green",
             coords |-> <<<<90, 0, 10>>, <<70, 0, 30>>, <<80, 20, 0>>, <<98, 2, 0>>>>],
     T2 |-> [color |-> "yellow", text_color |-> "darkgoldenrod",
             coords |-> <<<<70, 0, 30>>, <<50, 0, 50>>, <<40, 60, 0>>, <<80, 20, 0>>>>],
     T3 |-> [color |-> "orange", text_color |-> "red",
             coords |-> <<<<40, 60, 0>>, <<0, 100, 0>>, <<0, 50, 50>>, <<50, 0, 50>>>>],
     D2 |-> [color |-> "salmon", text_color |-> "darkred",
             coords |-> <<<<0, 100, 0>>, <<0, 0, 100>>, <<40, 60, 0>>>>],
     D1 |-> [color |-> "purple", text_color |-> "white",
             coords |-> <<<<0, 50, 50>>, <<0, 0, 100>>, <<50, 0, 50>>>>]]

\* the dict regions of plot_duval_t4 (P1=H2, P2=C2H2, P3=C2H4)
regions_t4 ==
    [S  |-> [color |-> "lightgray", text_color |-> "black",
             coords |-> <<<<95, 5, 0>>, <<70, 30, 0>>, <<70, 0, 30>>, <<95, 0, 5>>>>],
     T3 |-> [color |-> "gold", text_color |-> "orange",
             coords |-> <<<<30, 0, 70>>, <<0, 0, 100>>, <<0, 30, 70>>, <<30, 70, 0>>>>],
     D2 |-> [color |-> "darkred", text_color |-> "white",
             coords |-> <<<<0, 100, 0>>, <<0, 70, 30>>, <<30, 0, 70>>, <<0, 0, 100>>>>]]

\* step 2 of draw_duval_triangle_plot: the loop over fault_regions
DrawRegions(fault_regions) ==
    [name \in DOMAIN fault_regions |-> DrawRegion(fault_regions[name])]

DrawRegions_table ==
    [r \in Listed({regions_t1, regions_t4}) |-> DrawRegions(r)]

DrawRegions_cached(fault_regions) ==
    Cached(DrawRegions_table, fault_regions, DrawRegions(fault_regions))

\* the apex argument of line 164
ApexArgs == <<0, 50, 100>>

draw_duval_triangle_plot(P1, P2, P3, fault_regions, title) ==
    [raised |-> FALSE,
     drawn |-> TRUE,
     title |-> title,
     A |-> Point(PyInt(0), PyInt(0)),
     B |-> Point(PyInt(100), PyInt(0)),
     C |-> to_cartesian(PyInt(ApexArgs[1]), PyInt(ApexArgs[2]), PyInt(ApexArgs[3])),
     regions |-> DrawRegions_cached(fault_regions),
     user |-> to_cartesian(P1, P2, P3),
     P |-> <<P1, P2, P3>>]

\* lines 216-233: plot_duval_t1 from p = (P_CH4, P_C2H4, P_C2H2, total) on
plot_duval_t1_of(p) ==
    IF p.raised THEN Raise
    ELSE IF FGt(p.total, PyInt(0))
    THEN draw_duval_triangle_plot(p.P1, p.P2, p.P3, regions_t1,
             "Duval Triangle 1 (T1, T2, D1, D2, PD)")
    ELSE [raised |-> FALSE, drawn |-> FALSE, title |-> "Duval Triangle 1 - No Gas Input"]

plot_duval_t1(H2, CH4, C2H4, C2H2, CO) ==
    plot_duval_t1_of(get_duval_percentages_cached(CH4, C2H4, C2H2))

\* lines 240-254: plot_duval_t4 from p = (P_H2, P_C2H2, P_C2H4, total) on
plot_duval_t4_of(p) ==
    IF p.raised THEN Raise
    ELSE IF FGt(p.total, PyInt(0))
    THEN draw_duval_triangle_plot(p.P1, p.P2, p.P3, regions_t4,
             "Duval Triangle 4 (T3, D2, S)")
    ELSE [raised |-> FALSE, drawn |-> FALSE, title |-> "Duval Triangle 4 - No Gas Input"]

plot_duval_t4(H2, CH4, C2H4, C2H2, CO) ==
    plot_duval_t4_of(get_duval_percentages_cached(H2, C2H2, C2H4))

\* plot_duval_t1 reads CH4, C2H4, C2H2 alone, plot_duval_t4 reads H2, C2H2,
\* C2H4 alone
plot_duval_t1_table ==
    [t \in Listed({FloatTriple(u) : u \in T1Triples}) |->
        plot_duval_t1(FZero, t[1], t[2], t[3], FZero)]

plot_duval_t4_table ==
    [t \in Listed({FloatTriple(u) : u \in T4Triples}) |->
        plot_duval_t4(t[1], FZero, t[3], t[2], FZero)]

plot_duval_t1_cached(H2, CH4, C2H4, C2H2, CO) ==
    Cached(plot_duval_t1_table, <<CH4, C2H4, C2H2>>,
           plot_duval_t1(H2, CH4, C2H4, C2H2, CO))

plot_duval_t4_cached(H2, CH4, C2H4, C2H2, CO) ==
    Cached(plot_duval_t4_table, <<H2, C2H2, C2H4>>,
           plot_duval_t4(H2, CH4, C2H4, C2H2, CO))

(***************************************************************************)
(* The script.  Streamlit runs the whole script top to bottom on every     *)
(* widget event; the page is what one run renders.                         *)
(***************************************************************************)
\* line 310: the dict gas_data of the floats the five number_inputs return
\* for the decimals g
number_inputs(g) == [k \in GasKeys |-> Float(g[k])]

\* float('inf')
Inf == [inf |-> TRUE]

\* the guarded quotients of the Rogers and Doernenburg tabs
TabRatio(a, b) == IF FGt(b, PyInt(0)) THEN PyDiv_cached(a, b) ELSE Inf

\* sum(gas_data.values()): 0 + H2 + CH4 + C2H4 + C2H2 + CO, left to right
total_gases(gas) ==
    FAdd(FAdd(FAdd(FAdd(FAdd(PyInt(0), gas.H2), gas.CH4), gas.C2H4),
              gas.C2H2), gas.CO)

\* lines 324-409: the script from the dict gas (the floats of gas_data) and
\* the flag st.session_state.analyzed on
Script(gas, an) ==
    IF an
    THEN [view |-> "dashboard",
          total_gases |-> total_gases(gas),
          analysis_results |->
              <<diagnose_duval_t1(gas.H2, gas.CH4, gas.C2H4, gas.C2H2, gas.CO),
                diagnose_duval_t4(gas.H2, gas.CH4, gas.C2H4, gas.C2H2, gas.CO),
                diagnose_rogers_ratio(gas.H2, gas.CH4, gas.C2H4, gas.C2H2, gas.CO),
                diagnose_doernenburg(gas.H2, gas.CH4, gas.C2H4, gas.C2H2, gas.CO),
                diagnose_duval_pentagon(gas.H2, gas.CH4, gas.C2H4, gas.C2H2, gas.CO)>>,
          tab1 |-> plot_duval_t1(gas.H2, gas.CH4, gas.C2H4, gas.C2H2, gas.CO),
          tab2 |-> plot_duval_t4(gas.H2, gas.CH4, gas.C2H4, gas.C2H2, gas.CO),
          tab3 |-> [text |-> diagnose_rogers_ratio(gas.H2, gas.CH4, gas.C2H4,
                                                   gas.C2H2, gas.CO),
                    ratios |-> <<TabRatio(gas.CH4, gas.H2),
                                 TabRatio(gas.C2H4, gas.CH4),
                                 TabRatio(gas.C2H2, gas.C2H4)>>],
          tab4 |-> [text |-> diagnose_doernenburg(gas.H2, gas.CH4, gas.C2H4,
                                                  gas.C2H2, gas.CO),
                    ratios_doernenburg |->
                        <<TabRatio(gas.CH4, gas.H2), TabRatio(gas.C2H2, gas.C2H4),
                          TabRatio(gas.C2H2, gas.CH4)>>],
          tab5 |-> diagnose_duval_pentagon(gas.H2, gas.CH4, gas.C2H4,
                                           gas.C2H2, gas.CO)]
    ELSE [view |-> "info",
          total_gases |-> total_gases(gas)]

\* one run of the script on the decimals g typed into the widgets
ScriptRun(g, an) == Script(number_inputs(g), an)

\* the runs of the script on the readings of a session
ScriptRun_table ==
    [r \in Listed(WidgetReadings \X BOOLEAN) |-> ScriptRun(r[1], r[2])]

NoCall == [fn |-> "none"]
NoPage == [view |-> "none"]

(***************************************************************************)
(* The session: Spec                                                       *)
(***************************************************************************)
\* first run of a new session: 'analyzed' not in session_state
Init ==
    /\ gas_data = DefaultGas
    /\ analyzed = FALSE
    /\ lastEvent = "session_start"
    /\ page = ScriptRun_table[<<DefaultGas, FALSE>>]
    /\ call = NoCall

\* an edit that also clears the flag
NumberInput_resets ==
    \E k \in GasKeys : \E v \in WidgetValues(k) :
        /\ v # gas_data[k]
        /\ gas_data' = [gas_data EXCEPT ![k] = v]
        /\ lastEvent' = "number_input"
        /\ analyzed' = FALSE
        /\ page' = ScriptRun_table[<<gas_data', analyzed'>>]
        /\ UNCHANGED call

\* the user edits one number_input; the script reruns
NumberInput ==
    \E k \in GasKeys : \E v \in WidgetValues(k) :
        /\ v # gas_data[k]
        /\ gas_data' = [gas_data EXCEPT ![k] = v]
        /\ lastEvent' = "number_input"
        /\ page' = ScriptRun_table[<<gas_data', analyzed>>]
        /\ UNCHANGED <<analyzed, call>>

\* the callback of the "Analyze DGA Data" button
set_analysis_state_true == TRUE

\* the user clicks the button: on_click runs first, then the script reruns
AnalyzeButton ==
    /\ analyzed' = set_analysis_state_true
    /\ lastEvent' = "analyze_button"
    /\ page' = ScriptRun_table[<<gas_data, analyzed'>>]
    /\ UNCHANGED <<gas_data, call>>

\* a rerun with no widget change (the app menu's Rerun)
Rerun ==
    /\ lastEvent' = "rerun"
    /\ page' = ScriptRun_table[<<gas_data, analyzed>>]
    /\ UNCHANGED <<gas_data, analyzed, call>>

Next == NumberInput \/ AnalyzeButton \/ Rerun

Spec == Init /\ [][Next]_vars

(***************************************************************************)
(* One function called directly on a reading: SpecCore                     *)
(***************************************************************************)
InitCore ==
    /\ gas_data \in Readings
    /\ analyzed = FALSE
    /\ lastEvent = "none"
    /\ page = NoPage
    /\ call = NoCall

\* the functions are pure: a behaviour is one call on the reading drawn
Called(fn, args, ret) ==
    /\ call = NoCall
    /\ call' = [fn |-> fn, args |-> args, ret |-> ret]
    /\ UNCHANGED <<gas_data, analyzed, lastEvent, page>>

GasArgs == <<gas_data.H2, gas_data.CH4, gas_data.C2H4, gas_data.C2H2, gas_data.CO>>

\* f(**gas) for each function of the source called on a reading
diagnose_duval_t1_kw(gas) ==
    diagnose_duval_t1(gas.H2, gas.CH4, gas.C2H4, gas.C2H2, gas.CO)
diagnose_duval_t4_kw(gas) ==
    diagnose_duval_t4(gas.H2, gas.CH4, gas.C2H4, gas.C2H2, gas.CO)
diagnose_duval_t5_kw(gas) ==
    diagnose_duval_t5(gas.H2, gas.CH4, gas.C2H4, gas.C2H2, gas.CO)
diagnose_rogers_ratio_kw(gas) ==
    diagnose_rogers_ratio(gas.H2, gas.CH4, gas.C2H4, gas.C2H2, gas.CO)
diagnose_doernenburg_kw(gas) ==
    diagnose_doernenburg(gas.H2, gas.CH4, gas.C2H4, gas.C2H2, gas.CO)
diagnose_duval_pentagon_kw(gas) ==
    diagnose_duval_pentagon(gas.H2, gas.CH4, gas.C2H4, gas.C2H2, gas.CO)
plot_duval_t1_kw(gas) ==
    plot_duval_t1_cached(gas.H2, gas.CH4, gas.C2H4, gas.C2H2, gas.CO)
plot_duval_t4_kw(gas) ==
    plot_duval_t4_cached(gas.H2, gas.CH4, gas.C2H4, gas.C2H2, gas.CO)

Call_diagnose_duval_t1 ==
    Called("diagnose_duval_t1", GasArgs,
           diagnose_duval_t1_kw(number_inputs(gas_data)))

Call_diagnose_duval_t4 ==
    Called("diagnose_duval_t4", GasArgs,
           diagnose_duval_t4_kw(number_inputs(gas_data)))

Call_diagnose_duval_t5 ==
    Called("diagnose_duval_t5", GasArgs,
           diagnose_duval_t5_kw(number_inputs(gas_data)))

Call_diagnose_rogers_ratio ==
    Called("diagnose_rogers_ratio", GasArgs,
           diagnose_rogers_ratio_kw(number_inputs(gas_data)))

Call_diagnose_doernenburg ==
    Called("diagnose_doernenburg", GasArgs,
           diagnose_doernenburg_kw(number_inputs(gas_data)))

Call_diagnose_duval_pentagon ==
    Called("diagnose_duval_pentagon", GasArgs,
           diagnose_duval_pentagon_kw(number_inputs(gas_data)))

\* the two triples the code normalises: Triangle 1/5 and Triangle 4
DuvalTriples ==
    {<<gas_data.CH4, gas_data.C2H4, gas_data.C2H2>>,
     <<gas_data.H2, gas_data.C2H2, gas_data.C2H4>>}

\* get_duval_percentages on a triple of floats
get_duval_percentages_on(t) == get_duval_percentages_cached(t[1], t[2], t[3])

Call_get_duval_percentages ==
    \E t \in DuvalTriples :
        Called("get_duval_percentages", t, get_duval_percentages_on(FloatTriple(t)))

\* the vertex triples of a regions dict
RegionVertices(fault_regions) ==
    UNION {{fault_regions[n].coords[i] : i \in DOMAIN fault_regions[n].coords} :
           n \in DOMAIN fault_regions}

IntTriple(t) == <<PyInt(t[1]), PyInt(t[2]), PyInt(t[3])>>

\* the argument triples of the to_cartesian calls of one plot: none when
\* nothing is drawn, else the apex argument (line 164), every region vertex
\* (line 172) and the user's percentages (line 192)
CartesianArgsOf(plot, fault_regions) ==
    IF plot.raised \/ ~plot.drawn THEN {}
    ELSE {IntTriple(ApexArgs)}
         \cup {IntTriple(v) : v \in RegionVertices(fault_regions)}
         \cup {plot.P}

\* the to_cartesian calls of the two plots of the dict gas
CartesianArgsOn(gas) ==
    CartesianArgsOf(plot_duval_t1_kw(gas), regions_t1)
    \cup CartesianArgsOf(plot_duval_t4_kw(gas), regions_t4)

CartesianArgs == CartesianArgsOn(number_inputs(gas_data))

\* the projections of the apex argument and of the region vertices
to_cartesian_table ==
    [t \in Listed({IntTriple(ApexArgs)}
                  \cup {IntTriple(v) : v \in RegionVertices(regions_t1)
                                             \cup RegionVertices(regions_t4)})
     |-> to_cartesian(t[1], t[2], t[3])]

to_cartesian_cached(p1, p2, p3) ==
    Cached(to_cartesian_table, <<p1, p2, p3>>, to_cartesian(p1, p2, p3))

\* to_cartesian on a triple
to_cartesian_on(t) == to_cartesian_cached(t[1], t[2], t[3])

Call_to_cartesian ==
    /\ call = NoCall
    /\ \E t \in CartesianArgs : Called("to_cartesian", t, to_cartesian_on(t))

Call_plot_duval_t1 ==
    Called("plot_duval_t1", GasArgs, plot_duval_t1_kw(number_inputs(gas_data)))

Call_plot_duval_t4 ==
    Called("plot_duval_t4", GasArgs, plot_duval_t4_kw(number_inputs(gas_data)))

NextCore ==
    \/ Call_diagnose_duval_t1
    \/ Call_diagnose_duval_t4
    \/ Call_diagnose_duval_t5
    \/ Call_diagnose_rogers_ratio
    \/ Call_diagnose_doernenburg
    \/ Call_diagnose_duval_pentagon
    \/ Call_get_duval_percentages
    \/ Call_to_cartesian
    \/ Call_plot_duval_t1
    \/ Call_plot_duval_t4

SpecCore == InitCore /\ [][NextCore]_vars

(***************************************************************************)
(* Properties                                                              *)
(***************************************************************************)
\* Exact arithmetic for the properties: a non-negative dyadic number
\* [m |-> M, e |-> E] is M * 2^E, M of any size; every double is one.
XInt(n) == [m |-> BFromInt(n), e |-> 0]
XPow2(k) == [m |-> <<1>>, e |-> k]
XMin(i, j) == IF i < j THEN i ELSE j
XAdd(a, b) ==
    LET e == XMin(a.e, b.e)
    IN  [m |-> BAdd(BShl(a.m, a.e - e), BShl(b.m, b.e - e)), e |-> e]
XMul(a, b) == [m |-> BMul(a.m, b.m), e |-> a.e + b.e]
XLe(a, b) ==
    LET e == XMin(a.e, b.e)
    IN  BCmp(BShl(a.m, a.e - e), BShl(b.m, b.e - e)) <= 0
XEq(a, b) == XLe(a, b) /\ XLe(b, a)

\* |a - b| <= t
XNear(a, b, t) == XLe(a, XAdd(b, t)) /\ XLe(b, XAdd(a, t))

\* the floating-point tolerance: 2^-30, below 1e-9
Tolerance == XPow2(-30)

DiagnosticFns ==
    {"diagnose_duval_t1", "diagnose_duval_t4", "diagnose_duval_t5",
     "diagnose_rogers_ratio", "diagnose_doernenburg", "diagnose_duval_pentagon"}

\* the labels each function can return, fallback included
FaultLabels ==
    [diagnose_duval_t1 |->
        {"T1 (Thermal fault T < 300°C)", "T2 (Thermal fault 300°C-700°C)",
         "D2 (Arcing in oil)", "T3 (Thermal fault T > 700°C)",
         "Undefined/Mixed Fault"},
     diagnose_duval_t4 |->
        {"S (Stray Gassing / Hot metal contacts)",
         "T3 (Severe Thermal Fault T > 700°C)", "D2 (High Energy Arcing)",
         "Mixed or Undefined Region"},
     diagnose_duval_t5 |->
        {"HC (Hot cellulosic materials)",
         "T1 (Thermal T < 300°C - Cellulose/Paper)",
         "T2 (Thermal T 300°C-770°C)", "Mixed Oil Fault"},
     diagnose_rogers_ratio |->
        {diagnoses[c] : c \in DOMAIN diagnoses}
        \cup {"Undefined/Developing Fault"},
     diagnose_doernenburg |->
        {"D1 (Discharge/Arcing)", "T2 (Thermal fault 300°C-700°C)",
         "Mixed/Other fault"},
     diagnose_duval_pentagon |->
        {"D2 / T3 (High Energy Arcing + Hotspot)",
         "PD / D1 (Partial Discharge / Low Energy Discharge)",
         "C (Cellulose/Paper degradation - thermal)",
         "T2 (Thermal Fault 300°C-700°C)", "Mixed/Unclassified Fault Zone"}]

Vocabulary(fn) ==
    FaultLabels[fn]
    \cup (IF fn \in {"diagnose_duval_t1", "diagnose_duval_t4", "diagnose_duval_t5"}
          THEN {NotApplicable} ELSE {})
    \cup (IF fn = "diagnose_doernenburg" THEN {Inconclusive} ELSE {})

\* the arguments of the current call of a diagnostic function
ArgH2 == call.args[1]
ArgCH4 == call.args[2]
ArgC2H4 == call.args[3]
ArgC2H2 == call.args[4]
ArgCO == call.args[5]

Returned(fn) == call.fn = fn /\ ~call.ret.raised

\* C1: every call of one of the six diagnostic functions on a reading of
\* non-negative values, zeros included, returns without raising, and the
\* label it returns is in that function's vocabulary.
C1_NoRaiseLabelInVocabulary ==
    call.fn \in DiagnosticFns =>
        /\ ~call.ret.raised
        /\ call.ret.diagnosis \in Vocabulary(call.fn)

\* the Rogers function has returned on the all-zero reading
C1_Witness ==
    /\ Returned("diagnose_rogers_ratio")
    /\ call.args = <<0, 0, 0, 0, 0>>
    /\ call.ret.diagnosis = "Undefined/Developing Fault"

\* the limits as decimals: C2H2 < 0.5 is 2 * C2H2 < 1
BelowDoernenburgLimits ==
    \/ ArgH2 < Ppm(100)
    \/ ArgCH4 < Ppm(10)
    \/ 2 * ArgC2H2 < Ppm(1)
    \/ ArgC2H4 < Ppm(50)

\* C2: diagnose_doernenburg returns "Inconclusive" exactly when H2 < 100 or
\* CH4 < 10 or C2H2 < 0.5 or C2H4 < 50, and then its ratios dict was never
\* built; a reading with H2 = 50 is always "Inconclusive".
C2_DoernenburgGate ==
    call.fn = "diagnose_doernenburg" =>
        /\ ~call.ret.raised
        /\ (call.ret.diagnosis = Inconclusive) <=> BelowDoernenburgLimits
        /\ BelowDoernenburgLimits => DOMAIN call.ret.ratios = {}
        /\ ~BelowDoernenburgLimits => DOMAIN call.ret.ratios # {}
        /\ ArgH2 = Ppm(50) => call.ret.diagnosis = Inconclusive

\* H2 = 50 alone is below its limit and the call is "Inconclusive"
C2_Witness ==
    /\ Returned("diagnose_doernenburg")
    /\ ArgH2 = Ppm(50)
    /\ ArgCH4 >= Ppm(10) /\ 2 * ArgC2H2 >= Ppm(1) /\ ArgC2H4 >= Ppm(50)
    /\ call.ret.diagnosis = Inconclusive

RogersDigits == {"0", "1", "2"}

\* C3: in diagnose_rogers_ratio a ratio whose denominator is zero is 99 and
\* its digit of the code is '2', whatever the other gases are.
C3_RogersSentinel ==
    call.fn = "diagnose_rogers_ratio" =>
        /\ ~call.ret.raised
        /\ ArgH2 = 0 =>
              /\ call.ret.ratios.R1 = FFromInt(99)
              /\ call.ret.code \in {"2" \o b \o c : b, c \in RogersDigits}
        /\ ArgCH4 = 0 =>
              /\ call.ret.ratios.R2 = FFromInt(99)
              /\ call.ret.code \in {a \o "2" \o c : a, c \in RogersDigits}
        /\ ArgC2H4 = 0 =>
              /\ call.ret.ratios.R5 = FFromInt(99)
              /\ call.ret.code \in {a \o b \o "2" : a, b \in RogersDigits}

\* H2 = 0 with a positive numerator CH4: R1 is the sentinel, R2 is not
C3_Witness ==
    /\ Returned("diagnose_rogers_ratio")
    /\ ArgH2 = 0 /\ ArgCH4 > 0 /\ ArgC2H4 > 0
    /\ call.ret.ratios.R1 = FFromInt(99)
    /\ call.ret.ratios.R2 # FFromInt(99)
    /\ call.ret.code \in {"2" \o b \o c : b, c \in RogersDigits}

\* C4: diagnose_duval_t1 and diagnose_duval_t5 return "Not Applicable"
\* exactly when CH4 = C2H4 = C2H2 = 0, diagnose_duval_t4 exactly when
\* H2 = C2H2 = C2H4 = 0; with a positive sum of its three gases each returns
\* one of its fault labels or its fallback.
C4_NotApplicableIffZeroTotal ==
    call.fn \in {"diagnose_duval_t1", "diagnose_duval_t4", "diagnose_duval_t5"} =>
        LET zero == IF call.fn = "diagnose_duval_t4"
                    THEN ArgH2 = 0 /\ ArgC2H2 = 0 /\ ArgC2H4 = 0
                    ELSE ArgCH4 = 0 /\ ArgC2H4 = 0 /\ ArgC2H2 = 0
        IN  /\ ~call.ret.raised
            /\ (call.ret.diagnosis = NotApplicable) <=> zero
            /\ ~zero => call.ret.diagnosis \in FaultLabels[call.fn]

\* Triangle 4 on a reading whose only gases are the two it does not use
C4_Witness ==
    /\ Returned("diagnose_duval_t4")
    /\ ArgH2 = 0 /\ ArgC2H2 = 0 /\ ArgC2H4 = 0
    /\ ArgCH4 > 0 /\ ArgCO > 0
    /\ call.ret.diagnosis = NotApplicable

\* the three percentages of a get_duval_percentages result
Percentages(r) == <<r.P1, r.P2, r.P3>>

\* the percentages lie in [0, 100] and the total is positive
C5_InRange(r) ==
    /\ \A i \in 1..3 :
          FLe(FFromInt(0), Percentages(r)[i])
          /\ FLe(Percentages(r)[i], FFromInt(100))
    /\ FGt(r.total, FFromInt(0))

\* the result on (0, 0, 0)
C5_Zero(r) ==
    /\ FIsZero(r.P1) /\ FIsZero(r.P2) /\ FIsZero(r.P3)
    /\ FIsZero(r.total)

CutoffDigit(d, r, lo, hi) ==
    /\ FLt(r, lo) => d = "0"
    /\ FGt(r, hi) => d = "2"
    /\ (FGe(r, lo) /\ FLe(r, hi)) => d = "1"

\* the ratio r of the code is the quotient num/den within the
\* floating-point tolerance, or 99 when den is zero
RogersRatio(r, num, den) ==
    IF den = 0 THEN r = FFromInt(99)
    ELSE XNear(XMul(r, XInt(den)), XInt(num), XMul(Tolerance, XInt(den)))

\* C6: the Rogers code is the digits of R1, R2, R5 in this order, each '0'
\* strictly below the lower cutoff, '2' strictly above the upper cutoff and
\* '1' otherwise (cutoffs 0.1 and 1 for R1, 1 and 3 for R2, 0.5 and 3 for
\* R5); the diagnosis is the table entry of the code or "Undefined/Developing
\* Fault"; the default reading has code "100" and diagnosis T1.
C6_RogersBuckets ==
    call.fn = "diagnose_rogers_ratio" =>
        /\ ~call.ret.raised
        /\ RogersRatio(call.ret.ratios.R1, ArgCH4, ArgH2)
        /\ RogersRatio(call.ret.ratios.R2, ArgC2H4, ArgCH4)
        /\ RogersRatio(call.ret.ratios.R5, ArgC2H2, ArgC2H4)
        /\ \E a, b, c \in RogersDigits :
              /\ call.ret.code = a \o b \o c
              /\ CutoffDigit(a, call.ret.ratios.R1, FFromRatio(1, 10), FFromInt(1))
              /\ CutoffDigit(b, call.ret.ratios.R2, FFromInt(1), FFromInt(3))
              /\ CutoffDigit(c, call.ret.ratios.R5, FFromRatio(1, 2), FFromInt(3))
        /\ call.ret.diagnosis =
              (IF call.ret.code \in DOMAIN diagnoses
               THEN diagnoses[call.ret.code]
               ELSE "Undefined/Developing Fault")
        /\ call.args = <<Ppm(150), Ppm(25), Ppm(10), Scale \div 2, Ppm(800)>> =>
              /\ call.ret.code = "100"
              /\ call.ret.diagnosis = "T1 (Thermal Fault T < 300°C)"

\* all three ratios exactly at their lower cutoffs: 10/100, 10/10, 5/10
C6_Witness ==
    /\ Returned("diagnose_rogers_ratio")
    /\ ArgH2 = Ppm(100) /\ ArgCH4 = Ppm(10) /\ ArgC2H4 = Ppm(10)
    /\ ArgC2H2 = Ppm(5)
    /\ call.ret.ratios.R1 = FFromRatio(1, 10)
    /\ call.ret.code = "111"
    /\ call.ret.diagnosis = "Mixed thermal and electrical"

\* the Triangle 1 row of the summary table
SummaryT1 == page.analysis_results[1]

\* the conditions of diagnose_duval_t1 on a triple of percentages
T1Cond(P) == FLt(P[3], FFromRatio(1, 2)) /\ FGt(P[1], FFromInt(80))
T2Cond(P) == FGt(P[2], FFromInt(25)) /\ FLt(P[3], FFromInt(1))
D2Cond(P) == FGt(P[3], FFromInt(5)) /\ FGt(P[2], FFromInt(15))
T3Cond(P) == FGt(P[2], FFromInt(50)) /\ FLt(P[3], FFromInt(2))

\* C7: on the default reading (H2=150, CH4=25, C2H4=10, C2H2=0.5, CO=800)
\* diagnose_duval_t1 returns "Undefined/Mixed Fault", and the percentages
\* satisfy none of the T1, T2, D2 and T3 conditions.
C7_DefaultReadingIsUndefinedMixed ==
    (analyzed /\ gas_data = DefaultGas) =>
        /\ ~SummaryT1.raised
        /\ SummaryT1.diagnosis = "Undefined/Mixed Fault"
        /\ ~T1Cond(SummaryT1.detail)
        /\ ~T2Cond(SummaryT1.detail)
        /\ ~D2Cond(SummaryT1.detail)
        /\ ~T3Cond(SummaryT1.detail)

\* the button was clicked with the default inputs untouched: the
\* percentages are 5000/71, 2000/71 and 100/71 within the tolerance
C7_Witness ==
    /\ analyzed
    /\ gas_data = DefaultGas
    /\ page.view = "dashboard"
    /\ XNear(XMul(SummaryT1.detail[1], XInt(71)), XInt(5000), Tolerance)
    /\ XNear(XMul(SummaryT1.detail[2], XInt(71)), XInt(2000), Tolerance)
    /\ XNear(XMul(SummaryT1.detail[3], XInt(71)), XInt(100), Tolerance)

\* p lies inside or on the triangle with the corners (0, 0), b on the
\* abscissa and c above it, within the tolerance: p is not right of the
\* edge from b to c and not left of the edge from the origin to c
InsideOrOn(p, b, c) ==
    /\ XLe(XAdd(XMul(b.x, p.y), XMul(c.y, p.x)),
           XAdd(XAdd(XMul(c.x, p.y), XMul(c.y, b.x)), Tolerance))
    /\ XLe(XMul(c.x, p.y), XAdd(XMul(c.y, p.x), Tolerance))

DrawnPlots == {t \in {page.tab1, page.tab2} : ~t.raised /\ t.drawn}

\* C8 as stated: the outline drawn by draw_duval_triangle_plot has the
\* projections of the pure triples as its corners, the apex C at x = 50,
\* and every region vertex and the user's point lie inside or on it.
C8_OutlineIsTheTernaryTriangle ==
    page.view = "dashboard" =>
        \A t \in DrawnPlots :
            /\ t.A = to_cartesian(FFromInt(100), FFromInt(0), FFromInt(0))
            /\ t.B = to_cartesian(FFromInt(0), FFromInt(100), FFromInt(0))
            /\ t.C = to_cartesian(FFromInt(0), FFromInt(0), FFromInt(100))
            /\ t.A = Point(FFromInt(0), FFromInt(0))
            /\ t.C.x = FFromInt(50)
            /\ InsideOrOn(t.user, t.B, t.C)
            /\ \A name \in DOMAIN t.regions :
                  \A i \in DOMAIN t.regions[name].polygon :
                      InsideOrOn(t.regions[name].polygon[i], t.B, t.C)

\* the percentages of the current call of diagnose_duval_t1
T1P == call.ret.detail

\* C9: with a positive CH4+C2H4+C2H2 diagnose_duval_t1 returns the label
\* of the first condition that holds in the order T1, T2, D2, T3, else
\* "Undefined/Mixed Fault"; a reading that satisfies both the T2 and the T3
\* condition is labelled T2, and T3 is returned exactly when P_C2H4 > 50
\* and 1 <= P_C2H2 < 2.
C9_FirstMatchOrder ==
    (call.fn = "diagnose_duval_t1" /\ ArgCH4 + ArgC2H4 + ArgC2H2 > 0) =>
        /\ ~call.ret.raised
        /\ T1P = Percentages(get_duval_percentages_on(
                    FloatTriple(<<ArgCH4, ArgC2H4, ArgC2H2>>)))
        /\ call.ret.diagnosis =
              (IF T1Cond(T1P) THEN "T1 (Thermal fault T < 300°C)"
               ELSE IF T2Cond(T1P) THEN "T2 (Thermal fault 300°C-700°C)"
               ELSE IF D2Cond(T1P) THEN "D2 (Arcing in oil)"
               ELSE IF T3Cond(T1P) THEN "T3 (Thermal fault T > 700°C)"
               ELSE "Undefined/Mixed Fault")
        /\ (T2Cond(T1P) /\ T3Cond(T1P)) =>
              call.ret.diagnosis = "T2 (Thermal fault 300°C-700°C)"
        /\ (call.ret.diagnosis = "T3 (Thermal fault T > 700°C)") <=>
              /\ FGt(T1P[2], FFromInt(50))
              /\ FGe(T1P[3], FFromInt(1))
              /\ FLt(T1P[3], FFromInt(2))

\* ethylene above 50% with no acetylene satisfies T2 and T3: labelled T2
C9_Witness ==
    /\ Returned("diagnose_duval_t1")
    /\ ArgCH4 + ArgC2H4 + ArgC2H2 > 0
    /\ T2Cond(T1P) /\ T3Cond(T1P) /\ ~T1Cond(T1P)
    /\ call.ret.diagnosis = "T2 (Thermal fault 300°C-700°C)"

\* everything the dashboard shows, from the dict gas
DashboardOn(gas) ==
    page.view = "dashboard"
    /\ page.analysis_results =
          <<diagnose_duval_t1_kw(gas), diagnose_duval_t4_kw(gas),
            diagnose_rogers_ratio_kw(gas), diagnose_doernenburg_kw(gas),
            diagnose_duval_pentagon_kw(gas)>>
    /\ page.tab1 = plot_duval_t1_kw(gas)
    /\ page.tab2 = plot_duval_t4_kw(gas)
    /\ page.tab3.text = diagnose_rogers_ratio_kw(gas)
    /\ page.tab4.text = diagnose_doernenburg_kw(gas)
    /\ page.tab5 = diagnose_duval_pentagon_kw(gas)

\* everything the dashboard shows, from the decimals g of the widgets
DashboardOf(g) == DashboardOn(number_inputs(g))

\* C10: analyzed starts False, becomes True only by a click of the
\* "Analyze DGA Data" button and never returns to False; a run shows no
\* diagnosis while analyzed is False, and once it is True every run,
\* one caused by an input change included, shows the diagnoses and plots
\* of the current gas inputs.
C10_AnalyzedLatch ==
    /\ ~analyzed
    /\ [][(~analyzed /\ analyzed') => lastEvent' = "analyze_button"]_vars
    /\ [][analyzed => analyzed']_vars
    /\ [](~analyzed => (page.view = "info" /\ DOMAIN page = {"view", "total_gases"}))
    /\ [](analyzed => DashboardOf(gas_data))

\* after the click, an input change alone has rerun the analysis
C10_Witness ==
    /\ analyzed
    /\ lastEvent = "number_input"
    /\ gas_data # DefaultGas
    /\ DashboardOf(gas_data)

====
